---- MODULE Spec2Model ----
(***************************************************************************)
(* A model of dper.py: one run of main() is a sequential walk through      *)
(* process_dper (once per configured peer), check_peers, save_config and   *)
(* the reconfigure command.  The file system (cache files, temporary       *)
(* files, the live output file) survives from one run to the next.         *)
(***************************************************************************)
EXTENDS Integers, Sequences, FiniteSets, TLC

VARIABLES
    cfg,            \* the validated static configuration (dper.yaml) and the process's cwd
    env,            \* what the outside world may do: bodies served, faults possible
    args,           \* command line flags of this run: offline, force
    run,            \* number of the current run
    pc,             \* position of the run
    visited,        \* the positions this run has been at
    raised,         \* the exception that ended the run, and where it was raised
    exit_status,    \* exit status of the run ("running" while it runs)
    i,              \* main(): index of the peer being processed
    peers,          \* main(): the accumulated list of Peer
    changed,        \* main(): result of save_config ("none" before it returns)
    reconfigured,   \* the exit statuses of the reconfigure commands this run executed
    modified,       \* process_dper(): mtime of the cache file or None
    net,            \* process_dper(): what the network did with this peer's request
    response,       \* process_dper(): the response or None
    payload,        \* process_dper(): the payload to parse
    sent,           \* the HTTP requests issued in this run, in order
    cache,          \* file system: peer index -> cache file
    cache_pre,      \* the cache files as they were when the run started
    now,            \* file system clock (mtime of the next write)
    ci, cj,         \* check_peers(): position of the scan (peer, zone)
    all_zones,      \* check_peers(): zone -> first-seen peer id
    zone_errors,    \* check_peers(): number of conflicts
    critical,       \* check_peers(): the logger.critical records
    config_output,  \* save_config(): the rendered text
    output_path,    \* save_config(): name of the temporary file
    fd_open,        \* save_config(): the descriptor returned by mkstemp is open
    returncode,     \* save_config(): exit status of diff
    tmpfiles,       \* file system: temporary file name -> file
    live,           \* file system: the file at the live output path
    live_pre,       \* the live file as it was when the run started
    prev_call       \* the save_config call of the previous run, if it returned

confv == <<cfg, env>>
runv == <<args, run, visited, raised, exit_status>>
mainv == <<i, peers, changed, reconfigured>>
pdv == <<modified, net, response, payload, sent>>
cachev == <<cache, cache_pre, now>>
checkv == <<ci, cj, all_zones, zone_errors, critical>>
savev == <<config_output, output_path, fd_open, returncode>>
outv == <<tmpfiles, live, live_pre, prev_call>>

vars == <<cfg, env, args, run, pc, visited, raised, exit_status, i, peers, changed,
          reconfigured, modified, net, response, payload, sent, cache, cache_pre,
          now, ci, cj, all_zones, zone_errors, critical, config_output, output_path,
          fd_open, returncode, tmpfiles, live, live_pre, prev_call>>

\* ------------------------------------------------------------------ bounds
\* number of runs of the program over one file system
MaxRuns == 2
\* number of distinct lengths at which a failing write may stop
MaxPartial == 1

\* ------------------------------------------------------------- file system
S_IRUSR_IRGRP_IROTH == "r--r--r--"
MKSTEMP_MODE == "rw-------"

NoText == <<>>
NoBody == [fmt |-> "none", elems |-> <<>>]

NoFile == [exists |-> FALSE, content |-> NoBody, mtime |-> 0]
CacheFile(body, t) == [exists |-> TRUE, content |-> body, mtime |-> t]

NoOut == [exists |-> FALSE, content |-> NoText, mode |-> "", dir |-> ""]
OutFile(text, mode, dir) == [exists |-> TRUE, content |-> text, mode |-> mode, dir |-> dir]

\* the file system each directory is mounted on
FsOf(dir) == IF dir = "/tmp" THEN "tmpfs" ELSE "rootfs"

TmpNames == {"conf.1.tmp", "conf.2.tmp", "conf.3.tmp", "conf.4.tmp"}

\* ------------------------------------------------------- dynamic descriptors
WordChr == {"x", "y", "z", "Y", "b"}

ValidIPs == {"192.0.2.1", "192.0.2.2", "2001:db8::1"}

\* ipaddress.ip_address accepts the string
IP_ADDRESS(s) == s \in ValidIPs

\* vol.Match(r"\w+") is re.match: the pattern must match a prefix of the string
DOMAIN_NAME(s) == Len(s) > 0 /\ s[1] \in WordChr

\* tsig key names are kept as strings; the empty one has no \w prefix
TSIG_NAME(s) == s # ""

DYNAMIC_CONFIG_SCHEMA(config) ==
    /\ \A k \in 1..Len(config.masters) :
          IP_ADDRESS(config.masters[k].ip) /\ TSIG_NAME(config.masters[k].tsig)
    /\ \A k \in 1..Len(config.zones) : DOMAIN_NAME(config.zones[k])

PeerMaster(ip, tsig) == [ip |-> ip, tsig |-> tsig]
Peer(id, masters, zones) == [id |-> id, masters |-> masters, zones |-> zones]

\* the name as supplied
KeepDot(z) == z

\* re.sub(r"\.$", "", z)
StripDot(z) ==
    IF Len(z) > 0 /\ z[Len(z)] = "." THEN SubSeq(z, 1, Len(z) - 1) ELSE z

Raised(exc) == [kind |-> "raise", exc |-> exc]
Returned(val) == [kind |-> "return", val |-> val]

parse_dynamic_config_dict(peer_id, config) ==
    IF ~DYNAMIC_CONFIG_SCHEMA(config)
    THEN Raised("ValidationError")
    ELSE Returned(Peer(peer_id,
                       [k \in 1..Len(config.masters) |->
                            PeerMaster(config.masters[k].ip, config.masters[k].tsig)],
                       [k \in 1..Len(config.zones) |-> StripDot(config.zones[k])]))

\* json.loads then one Peer under the caller's id
parse_dynamic_config_json(peer_id, data) ==
    IF data.fmt # "json"
    THEN Raised("JSONDecodeError")
    ELSE LET r == parse_dynamic_config_dict(peer_id,
                      [masters |-> data.elems[1].masters, zones |-> data.elems[1].zones])
         IN  IF r.kind = "raise" THEN r ELSE Returned(<<r.val>>)

RECURSIVE XmlPeersPartial(_, _, _, _)
\* XmlPeers returning the list built so far when an element is invalid
XmlPeersPartial(peer_id, elems, k, acc) ==
    IF k > Len(elems)
    THEN Returned(acc)
    ELSE LET r == parse_dynamic_config_dict(peer_id \o <<"/", elems[k].name>>,
                      [masters |-> elems[k].masters, zones |-> elems[k].zones])
         IN  IF r.kind = "raise" THEN Returned(acc)
             ELSE XmlPeersPartial(peer_id, elems, k + 1, Append(acc, r.val))

RECURSIVE XmlPeers(_, _, _, _)
\* the loop over xml_root.findall("./peer"): acc is the list built so far
XmlPeers(peer_id, elems, k, acc) ==
    IF k > Len(elems)
    THEN Returned(acc)
    ELSE LET r == parse_dynamic_config_dict(peer_id \o <<"/", elems[k].name>>,
                      [masters |-> elems[k].masters, zones |-> elems[k].zones])
         IN  IF r.kind = "raise" THEN r
             ELSE XmlPeers(peer_id, elems, k + 1, Append(acc, r.val))

parse_dynamic_config_xml(peer_id, data) ==
    IF data.fmt # "xml"
    THEN Raised("ParseError")
    ELSE XmlPeers(peer_id, data.elems, 1, <<>>)

\* ---------------------------------------------------------------- rendering
\* A text is a sequence of lines, a line a sequence of string fragments.
RECURSIVE Flatten(_)
Flatten(ss) == IF ss = <<>> THEN <<>> ELSE Head(ss) \o Flatten(Tail(ss))

RECURSIVE Join(_, _)
\* sep.join(items)
Join(items, sep) ==
    IF items = <<>> THEN <<>>
    ELSE IF Len(items) = 1 THEN items[1]
    ELSE items[1] \o <<sep>> \o Join(Tail(items), sep)

\* str.lower on the alphabet of the model
Lower(c) == IF c = "Y" THEN "y" ELSE c

\* re.sub(r"/", "-", zone.lower())
zone2file(zone) ==
    [k \in 1..Len(zone) |-> IF Lower(zone[k]) = "/" THEN "-" ELSE Lower(zone[k])]

\* NsdMaster without the NOKEY line
NsdMasterKeyOnly(m) ==
    << <<"  allow-notify: ", m.ip, " ", m.tsig>>,
       <<"  request-xfr: ", m.ip, " ", m.tsig>> >>

NsdMaster(m) ==
    << <<"  allow-notify: ", m.ip, " ", m.tsig>>,
       <<"  allow-notify: ", m.ip, " ", "NOKEY">>,
       <<"  request-xfr: ", m.ip, " ", m.tsig>> >>

NsdZone(peer, z, use_zonefiles) ==
    << <<"# ">> \o peer.id, <<"zone:">>, <<"  name: ">> \o z >>
    \o (IF use_zonefiles THEN << <<"  zonefile: ">> \o zone2file(z) >> ELSE <<>>)
    \o Flatten([k \in 1..Len(peer.masters) |-> NsdMaster(peer.masters[k])])
    \o << <<>> >>

generate_nsd(ps, use_zonefiles) ==
    Flatten([p \in 1..Len(ps) |->
        Flatten([k \in 1..Len(ps[p].zones) |->
            NsdZone(ps[p], ps[p].zones[k], use_zonefiles)])])

NumStr == <<"1", "2", "3", "4">>

\* remote = f"{peer.id}/{n}"
KnotRemote(peer, n) == peer.id \o <<"/", NumStr[n]>>

KnotMasters(peer) == [n \in 1..Len(peer.masters) |-> KnotRemote(peer, n)]

\* acls = [acl] if acl else [], then acls.append(remote) once per entry of
\* masters, remote being the variable left by the loop over peer.masters
KnotAcls(peer, acl) ==
    (IF acl # "" THEN << <<acl>> >> ELSE <<>>)
    \o [n \in 1..Len(peer.masters) |-> KnotRemote(peer, Len(peer.masters))]

KnotPeer(peer, template, acl) ==
    << <<"remote:">> >>
    \o Flatten([n \in 1..Len(peer.masters) |->
          << <<"  - id: ">> \o KnotRemote(peer, n),
             <<"    address: ", peer.masters[n].ip>> >>
          \o (IF peer.masters[n].tsig # ""
              THEN << <<"    key: ", peer.masters[n].tsig>> >> ELSE <<>>)])
    \o << <<"acl:">> >>
    \o Flatten([n \in 1..Len(peer.masters) |->
          << <<"  - id: ">> \o KnotRemote(peer, n),
             <<"    remote: ">> \o KnotRemote(peer, n),
             <<"    action: [notify,transfer]">> >>])
    \o << <<"zone:">> >>
    \o Flatten([k \in 1..Len(peer.zones) |->
          << <<"  - domain: ">> \o peer.zones[k] >>
          \o (IF template # "" THEN << <<"    template: ", template>> >> ELSE <<>>)
          \o << <<"    master: ", "[">> \o Join(KnotMasters(peer), ",") \o <<"]">>,
                <<"    acl: ", "[">> \o Join(KnotAcls(peer, acl), ",") \o <<"]">> >>])

generate_knot(ps, template, acl) ==
    Flatten([p \in 1..Len(ps) |-> KnotPeer(ps[p], template, acl)])

\* the text save_config renders into config_output
Render(ps, c) ==
    IF c.output_format = "nsd"
    THEN generate_nsd(ps, c.zonefiles)
    ELSE generate_knot(ps, c.template, c.acl)

\* --------------------------------------------------------------------- HTTP
None == [kind |-> "None"]
Datetime(t) == [kind |-> "datetime", t |-> t]

NoNet == [kind |-> "none"]
NetError(cause) == [kind |-> "error", cause |-> cause]
Response(status, text) == [kind |-> "Response", status_code |-> status, text |-> text]

\* the exception requests raises for a transport failure
ExceptionOf(cause) ==
    CASE cause = "refused" -> "ConnectionError"
      [] cause = "dns" -> "ConnectionError"
      [] cause = "connect_timeout" -> "ConnectTimeout"
      [] cause = "read_timeout" -> "ReadTimeout"

\* isinstance(exc, requests.exceptions.ConnectionError):
\* ConnectTimeout(ConnectionError, Timeout), ReadTimeout(Timeout)
IsConnectionError(exc) == exc \in {"ConnectionError", "ConnectTimeout"}

\* Response.raise_for_status raises HTTPError
raise_for_status(r) == 400 <= r.status_code /\ r.status_code < 600

\* modified.strftime("%a, %d %b %Y %H:%M:%S GMT")
strftime(d) == [fmt |-> "%a, %d %b %Y %H:%M:%S GMT", sec |-> d.t]

\* the headers get_unless_modified sends
Headers(m) ==
    IF m # None THEN {[name |-> "If-Modified-Since", value |-> strftime(m)]} ELSE {}

\* get_unless_modified without the test for 304
get_always(r) == r

\* what get_unless_modified returns for the response r
get_unless_modified(r) == IF r.status_code = 304 THEN None ELSE r

\* what the network may do with one GET
NetOutcomes ==
    {NetError(c) : c \in env.causes}
    \cup {Response(rp[1], rp[2]) : rp \in env.replies}

\* ------------------------------------------------------------ control flow
InProcessDper == pc \in {"pd_stat", "pd_get", "pd_resolve", "pd_nocache", "pd_parse"}

Goto(l) == pc' = l /\ visited' = visited \cup {l}

Continue(l) == Goto(l) /\ UNCHANGED <<raised, exit_status>>

\* an exception leaves the current function; main() catches ConnectionError
\* around process_dper and calls sys.exit(-1), everything else is uncaught
Raise(exc) ==
    /\ Goto("exited")
    /\ raised' = [exc |-> exc, at |-> pc]
    /\ exit_status' = IF InProcessDper /\ IsConnectionError(exc) THEN "255" ELSE "1"

\* ------------------------------------------------------------------- main()
\* for peer_id, peer_config in config["peers"].items(): ... ; check_peers(peers)
main_loop ==
    /\ pc = "main_loop"
    /\ IF i <= Len(cfg.peers)
       THEN /\ Continue(IF cfg.cache_dir THEN "pd_stat" ELSE "pd_nocache")
            /\ modified' = None
            /\ net' = NoNet
            /\ response' = None
            /\ payload' = NoBody
            /\ UNCHANGED <<sent, checkv>>
       ELSE /\ Continue("check")
            /\ ci' = 1
            /\ cj' = 1
            /\ all_zones' = <<>>
            /\ zone_errors' = 0
            /\ critical' = <<>>
            /\ UNCHANGED pdv
    /\ UNCHANGED <<confv, args, run, mainv, cachev, savev, outv>>

\* ----------------------------------------------------------- process_dper()
\* modified = mtime of the cache file, None when it does not exist
pd_stat ==
    /\ pc = "pd_stat"
    /\ modified' = IF cache[i].exists THEN Datetime(cache[i].mtime) ELSE None
    /\ Continue("pd_get")
    /\ UNCHANGED <<confv, args, run, mainv, net, response, payload, sent,
                   cachev, checkv, savev, outv>>

\* force_cache never passed on
ForceCacheIgnored == FALSE

\* force_cache=args.offline
ForceCache == args.offline

\* response = None if force_cache else get_unless_modified(source, modified),
\* a ConnectionError giving None
pd_get ==
    /\ pc = "pd_get"
    /\ IF ForceCache
       THEN /\ response' = None
            /\ Continue("pd_resolve")
            /\ UNCHANGED <<net, sent>>
       ELSE \E o \in NetOutcomes :
            /\ net' = o
            /\ sent' = Append(sent, [peer |-> i, headers |-> Headers(modified)])
            /\ IF o.kind = "error"
               THEN IF IsConnectionError(ExceptionOf(o.cause))
                    THEN response' = None /\ Continue("pd_resolve")
                    ELSE response' = response /\ Raise(ExceptionOf(o.cause))
               ELSE response' = get_unless_modified(o) /\ Continue("pd_resolve")
    /\ UNCHANGED <<confv, args, run, mainv, modified, payload, cachev, checkv,
                   savev, outv>>

\* read the cache file, or check the status and write the body to the cache file
pd_resolve ==
    /\ pc = "pd_resolve"
    /\ IF response = None
       THEN /\ IF cache[i].exists
               THEN payload' = cache[i].content /\ Continue("pd_parse")
               ELSE payload' = payload /\ Raise("FileNotFoundError")
            /\ UNCHANGED cachev
       ELSE IF raise_for_status(response)
            THEN /\ Raise("HTTPError")
                 /\ UNCHANGED <<payload, cachev>>
            ELSE /\ payload' = response.text
                 /\ cache' = [cache EXCEPT ![i] = CacheFile(response.text, now)]
                 /\ now' = now + 1
                 /\ Continue("pd_parse")
                 /\ UNCHANGED cache_pre
    /\ UNCHANGED <<confv, args, run, mainv, modified, net, response, sent, checkv,
                   savev, outv>>

\* caching disabled: requests.get, raise_for_status, payload = response.text
pd_nocache ==
    /\ pc = "pd_nocache"
    /\ \E o \in NetOutcomes :
         /\ net' = o
         /\ sent' = Append(sent, [peer |-> i, headers |-> {}])
         /\ IF o.kind = "error"
            THEN UNCHANGED <<response, payload>> /\ Raise(ExceptionOf(o.cause))
            ELSE /\ response' = o
                 /\ IF raise_for_status(o)
                    THEN payload' = payload /\ Raise("HTTPError")
                    ELSE payload' = o.text /\ Continue("pd_parse")
    /\ UNCHANGED <<confv, args, run, mainv, modified, cachev, checkv, savev, outv>>

\* pd_parse with a payload that fails to parse skipped instead of fatal
pd_parse_skip ==
    /\ pc = "pd_parse"
    /\ LET r == IF cfg.peers[i].format = "json"
                THEN parse_dynamic_config_json(cfg.peers[i].id, payload)
                ELSE parse_dynamic_config_xml(cfg.peers[i].id, payload)
       IN  /\ peers' = IF r.kind = "raise" THEN peers ELSE peers \o r.val
           /\ i' = i + 1
           /\ Continue("main_loop")
    /\ UNCHANGED <<confv, args, run, changed, reconfigured, pdv, cachev, checkv,
                   savev, outv>>

\* pd_parse with the parsed peers put in front of the list
pd_parse_prepend ==
    /\ pc = "pd_parse"
    /\ LET r == IF cfg.peers[i].format = "json"
                THEN parse_dynamic_config_json(cfg.peers[i].id, payload)
                ELSE parse_dynamic_config_xml(cfg.peers[i].id, payload)
       IN  IF r.kind = "raise"
           THEN Raise(r.exc) /\ UNCHANGED <<i, peers>>
           ELSE /\ peers' = r.val \o peers
                /\ i' = i + 1
                /\ Continue("main_loop")
    /\ UNCHANGED <<confv, args, run, changed, reconfigured, pdv, cachev, checkv,
                   savev, outv>>

\* parse the payload in the configured format; main() extends peers with the result
pd_parse ==
    /\ pc = "pd_parse"
    /\ LET r == IF cfg.peers[i].format = "json"
                THEN parse_dynamic_config_json(cfg.peers[i].id, payload)
                ELSE parse_dynamic_config_xml(cfg.peers[i].id, payload)
       IN  IF r.kind = "raise"
           THEN Raise(r.exc) /\ UNCHANGED <<i, peers>>
           ELSE /\ peers' = peers \o r.val
                /\ i' = i + 1
                /\ Continue("main_loop")
    /\ UNCHANGED <<confv, args, run, changed, reconfigured, pdv, cachev, checkv,
                   savev, outv>>

\* ------------------------------------------------------------ check_peers()
\* ScanZone with the owner of a conflicting zone overwritten by the later peer
ScanZoneLastOwner(zone, peer_id) ==
    IF zone \in DOMAIN all_zones
    THEN /\ critical' = Append(critical,
                [zone |-> zone, owner |-> all_zones[zone], peer |-> peer_id])
         /\ zone_errors' = zone_errors + 1
         /\ all_zones' = [all_zones EXCEPT ![zone] = peer_id]
    ELSE /\ all_zones' = (zone :> peer_id) @@ all_zones
         /\ UNCHANGED <<critical, zone_errors>>

\* one iteration of the inner loop body: the zone is known already, or is new
ScanZone(zone, peer_id) ==
    IF zone \in DOMAIN all_zones
    THEN /\ critical' = Append(critical,
                [zone |-> zone, owner |-> all_zones[zone], peer |-> peer_id])
         /\ zone_errors' = zone_errors + 1
         /\ all_zones' = all_zones
    ELSE /\ all_zones' = (zone :> peer_id) @@ all_zones
         /\ UNCHANGED <<critical, zone_errors>>

\* the scan, one zone at a time, then the test of zone_errors
check_peers ==
    /\ pc = "check"
    /\ IF ci > Len(peers)
       THEN /\ IF zone_errors > 0 THEN Raise("ValueError") ELSE Continue("sc_render")
            /\ UNCHANGED checkv
       ELSE IF cj > Len(peers[ci].zones)
            THEN /\ ci' = ci + 1
                 /\ cj' = 1
                 /\ Continue("check")
                 /\ UNCHANGED <<all_zones, zone_errors, critical>>
            ELSE /\ ScanZone(peers[ci].zones[cj], peers[ci].id)
                 /\ cj' = cj + 1
                 /\ ci' = ci
                 /\ Continue("check")
    /\ UNCHANGED <<confv, args, run, mainv, pdv, cachev, savev, outv>>

\* ------------------------------------------------------------ save_config()
\* generate_nsd or generate_knot under redirect_stdout
sc_render ==
    /\ pc = "sc_render"
    /\ config_output' = Render(peers, cfg)
    /\ Continue("sc_mkstemp")
    /\ UNCHANGED <<confv, args, run, mainv, pdv, cachev, checkv, output_path,
                   fd_open, returncode, outv>>

\* the directory mkstemp(prefix="conf.", suffix=".tmp", dir=".") creates the file in
MkstempDir == cfg.cwd

FreeNames == {n \in TmpNames : ~tmpfiles[n].exists}

\* mkstemp: a new, empty file under a name not in use, opened for writing
sc_mkstemp ==
    /\ pc = "sc_mkstemp"
    /\ IF FreeNames = {}
       THEN Raise("FileExistsError") /\ UNCHANGED <<output_path, fd_open, tmpfiles>>
       ELSE LET name == CHOOSE n \in FreeNames : TRUE
            IN  /\ output_path' = name
                /\ fd_open' = TRUE
                /\ tmpfiles' = [tmpfiles EXCEPT ![name] =
                                   OutFile(NoText, MKSTEMP_MODE, MkstempDir)]
                /\ Continue("sc_write")
    /\ UNCHANGED <<confv, args, run, mainv, pdv, cachev, checkv, config_output,
                   returncode, live, live_pre, prev_call>>

\* the lengths os.write may reach: all of the text, or less when the disk is full
WriteLengths ==
    {Len(config_output)}
    \cup (IF env.fsfaults
          THEN {n \in 0..(Len(config_output) - 1) : n < MaxPartial}
          ELSE {})

\* the file the descriptor returned by mkstemp writes to
WriteTarget == output_path

\* sc_write with the text written to the live path itself
sc_write_inplace ==
    /\ pc = "sc_write"
    /\ \E n \in WriteLengths :
         /\ live' = OutFile(SubSeq(config_output, 1, n), MKSTEMP_MODE, cfg.output_dir)
         /\ IF n = Len(config_output) THEN Continue("sc_close") ELSE Raise("OSError")
    /\ UNCHANGED <<confv, args, run, mainv, pdv, cachev, checkv, savev, tmpfiles,
                   live_pre, prev_call>>

\* os.write(output_file, config_output.getvalue().encode())
sc_write ==
    /\ pc = "sc_write"
    /\ \E n \in WriteLengths :
         /\ tmpfiles' = [tmpfiles EXCEPT ![WriteTarget].content =
                            SubSeq(config_output, 1, n)]
         /\ IF n = Len(config_output) THEN Continue("sc_close") ELSE Raise("OSError")
    /\ UNCHANGED <<confv, args, run, mainv, pdv, cachev, checkv, savev, live,
                   live_pre, prev_call>>

\* os.close(output_file)
sc_close ==
    /\ pc = "sc_close"
    /\ fd_open' = FALSE
    /\ Continue("sc_chmod")
    /\ UNCHANGED <<confv, args, run, mainv, pdv, cachev, checkv, config_output,
                   output_path, returncode, outv>>

\* sc_chmod with the mode left as mkstemp made it
sc_chmod_skipped ==
    /\ pc = "sc_chmod"
    /\ Continue("sc_diff")
    /\ UNCHANGED <<confv, args, run, mainv, pdv, cachev, checkv, savev, outv>>

\* os.chmod(output_path, stat.S_IRUSR | stat.S_IRGRP | stat.S_IROTH)
sc_chmod ==
    /\ pc = "sc_chmod"
    /\ tmpfiles' = [tmpfiles EXCEPT ![output_path].mode = S_IRUSR_IRGRP_IROTH]
    /\ Continue("sc_diff")
    /\ UNCHANGED <<confv, args, run, mainv, pdv, cachev, checkv, savev, live,
                   live_pre, prev_call>>

\* exit status of diff -u filename output_path: 0 same, 1 different, 2 trouble
Diff(old, new) ==
    IF ~old.exists THEN 2
    ELSE IF old.content = new.content THEN 0 ELSE 1

\* subprocess.run(["diff", "-u", filename, output_path])
sc_diff ==
    /\ pc = "sc_diff"
    /\ returncode' = Diff(live, tmpfiles[output_path])
    /\ Continue("sc_decide")
    /\ UNCHANGED <<confv, args, run, mainv, pdv, cachev, checkv, config_output,
                   output_path, fd_open, outv>>

\* NoChange with the force flag read the wrong way round
NoChangeForced == returncode = 0 /\ args.force

\* if res.returncode == 0 and not force_output
NoChange == returncode = 0 /\ ~args.force

\* no change: os.remove(output_path), return False; otherwise log the diff
sc_decide ==
    /\ pc = "sc_decide"
    /\ IF NoChange
       THEN /\ tmpfiles' = [tmpfiles EXCEPT ![output_path] = NoOut]
            /\ changed' = "False"
            /\ Continue("reconfigure")
       ELSE /\ Continue("sc_rename")
            /\ UNCHANGED <<tmpfiles, changed>>
    /\ UNCHANGED <<confv, args, run, i, peers, reconfigured, pdv, cachev, checkv,
                   savev, live, live_pre, prev_call>>

\* os.rename fails with EXDEV when the two paths are on different file systems
RenameAllowed(from, dir) == FsOf(from.dir) = FsOf(dir)

\* os.rename(output_path, filename); return True
sc_rename ==
    /\ pc = "sc_rename"
    /\ IF RenameAllowed(tmpfiles[output_path], cfg.output_dir)
       THEN /\ live' = [tmpfiles[output_path] EXCEPT !.dir = cfg.output_dir]
            /\ tmpfiles' = [tmpfiles EXCEPT ![output_path] = NoOut]
            /\ changed' = "True"
            /\ Continue("reconfigure")
       ELSE /\ Raise("OSError")
            /\ UNCHANGED <<live, tmpfiles, changed>>
    /\ UNCHANGED <<confv, args, run, i, peers, reconfigured, pdv, cachev, checkv,
                   savev, live_pre, prev_call>>

\* ------------------------------------------------- main(): reconfigure, exit
\* reconfigure with the command run whether or not the output changed
reconfigure_always ==
    /\ pc = "reconfigure"
    /\ IF cfg.reconfigure_command # ""
       THEN \E rc \in {0, 1} : reconfigured' = Append(reconfigured, rc)
       ELSE reconfigured' = reconfigured
    /\ Goto("exited")
    /\ exit_status' = "0"
    /\ UNCHANGED <<confv, args, run, raised, i, peers, changed, pdv, cachev,
                   checkv, savev, outv>>

\* if changed and reconfigure: subprocess.run(shlex.split(reconfigure))
reconfigure ==
    /\ pc = "reconfigure"
    /\ IF changed = "True" /\ cfg.reconfigure_command # ""
       THEN \E rc \in {0, 1} : reconfigured' = Append(reconfigured, rc)
       ELSE reconfigured' = reconfigured
    /\ Goto("exited")
    /\ exit_status' = "0"
    /\ UNCHANGED <<confv, args, run, raised, i, peers, changed, pdv, cachev,
                   checkv, savev, outv>>

NoCall == [returned |-> FALSE, text |-> NoText]
NoRaise == [exc |-> "", at |-> ""]

Flags == [offline : BOOLEAN, force : BOOLEAN]

\* the state of a process that has parsed its arguments and loaded its configuration
StartRun ==
    /\ pc' = "main_loop"
    /\ visited' = {"main_loop"}
    /\ raised' = NoRaise
    /\ exit_status' = "running"
    /\ i' = 1
    /\ peers' = <<>>
    /\ changed' = "none"
    /\ reconfigured' = <<>>
    /\ modified' = None
    /\ net' = NoNet
    /\ response' = None
    /\ payload' = NoBody
    /\ sent' = <<>>
    /\ ci' = 1
    /\ cj' = 1
    /\ all_zones' = <<>>
    /\ zone_errors' = 0
    /\ critical' = <<>>
    /\ config_output' = NoText
    /\ output_path' = ""
    /\ fd_open' = FALSE
    /\ returncode' = -1

\* the program is started again (by cron) on the file system the last run left
next_run ==
    /\ pc = "exited"
    /\ run < env.runs
    /\ run' = run + 1
    /\ \E f \in Flags : args' = f
    /\ StartRun
    /\ live_pre' = live
    /\ cache_pre' = cache
    /\ prev_call' = IF changed # "none"
                    THEN [returned |-> TRUE, text |-> config_output]
                    ELSE NoCall
    /\ UNCHANGED <<confv, cache, now, tmpfiles, live>>

Next ==
    \/ main_loop
    \/ pd_stat
    \/ pd_get
    \/ pd_resolve
    \/ pd_nocache
    \/ pd_parse
    \/ check_peers
    \/ sc_render
    \/ sc_mkstemp
    \/ sc_write
    \/ sc_close
    \/ sc_chmod
    \/ sc_diff
    \/ sc_decide
    \/ sc_rename
    \/ reconfigure
    \/ next_run

\* ------------------------------------------------------------------ inputs
M1 == [ip |-> "192.0.2.1", tsig |-> "key1"]
M2 == [ip |-> "2001:db8::1", tsig |-> "key2"]
MBad == [ip |-> "192.0.2", tsig |-> "key1"]

Zx == <<"x">>
Zy == <<"y">>
Zz == <<"z">>
ZyDot == <<"y", ".">>
ZY == <<"Y">>
Zxb == <<"x", "/", "b">>

JsonDoc(masters, zones) ==
    [fmt |-> "json", elems |-> <<[name |-> "", masters |-> masters, zones |-> zones]>>]
XmlPeer(name, masters, zones) == [name |-> name, masters |-> masters, zones |-> zones]
XmlDoc(elems) == [fmt |-> "xml", elems |-> elems]

\* an error page: neither JSON nor XML
Html == [fmt |-> "html", elems |-> <<>>]

JsonXY == JsonDoc(<<M1>>, <<Zx, Zy>>)
JsonYDot == JsonDoc(<<M1, M2>>, <<ZyDot>>)
JsonXX == JsonDoc(<<M1>>, <<Zx, Zx>>)
JsonBad == JsonDoc(<<MBad>>, <<Zx>>)
XmlZ == XmlDoc(<<XmlPeer("n1", <<M1, M2>>, <<Zz>>)>>)
XmlYZ == XmlDoc(<<XmlPeer("n1", <<M2>>, <<Zy, Zz>>), XmlPeer("n2", <<>>, <<ZY, Zxb>>)>>)
XmlYY == XmlDoc(<<XmlPeer("n1", <<M1>>, <<Zy, Zz>>), XmlPeer("n2", <<M2>>, <<Zz, Zy>>)>>)
XmlBad == XmlDoc(<<XmlPeer("n1", <<M1>>, <<Zz>>), XmlPeer("n2", <<MBad>>, <<Zx>>)>>)
JsonUpper == JsonDoc(<<M1>>, <<ZY>>)
XmlDotY == XmlDoc(<<XmlPeer("n1", <<M1>>, <<>>), XmlPeer("n2", <<M2>>, <<ZyDot>>)>>)

ConfPeers ==
    << [id |-> <<"a">>, format |-> "json"], [id |-> <<"b">>, format |-> "xml"] >>

Config(cache_dir, output_format, cwd, reconfigure_command, conf_peers) ==
    [cache_dir |-> cache_dir, output_format |-> output_format,
     output_dir |-> "/etc/nsd", cwd |-> cwd,
     zonefiles |-> TRUE, template |-> "", acl |-> "acl0",
     reconfigure_command |-> reconfigure_command, peers |-> conf_peers]

\* the states main() can start in: the file system holds what earlier runs left
InitOf(configs, envs) ==
    /\ cfg \in configs
    /\ env \in envs
    /\ args \in Flags
    /\ run = 1
    /\ pc = "main_loop"
    /\ visited = {"main_loop"}
    /\ raised = NoRaise
    /\ exit_status = "running"
    /\ i = 1
    /\ peers = <<>>
    /\ changed = "none"
    /\ reconfigured = <<>>
    /\ modified = None
    /\ net = NoNet
    /\ response = None
    /\ payload = NoBody
    /\ sent = <<>>
    /\ cache \in [1..Len(cfg.peers) ->
                    IF cfg.cache_dir
                    THEN {NoFile} \cup {CacheFile(b, 0) : b \in env.cached}
                    ELSE {NoFile}]
    /\ cache_pre = cache
    /\ now = 1
    /\ ci = 1
    /\ cj = 1
    /\ all_zones = <<>>
    /\ zone_errors = 0
    /\ critical = <<>>
    /\ config_output = NoText
    /\ output_path = ""
    /\ fd_open = FALSE
    /\ returncode = -1
    /\ tmpfiles = [n \in TmpNames |-> NoOut]
    /\ live \in {NoOut}
                \cup {OutFile(Render(ps, cfg), S_IRUSR_IRGRP_IROTH, cfg.output_dir) :
                        ps \in env.published}
    /\ live_pre = live
    /\ prev_call = NoCall

Configs ==
    { Config(TRUE, "nsd", "/etc/nsd", "nsd-control reconfig", ConfPeers),
      [Config(TRUE, "knot", "/tmp", "", ConfPeers) EXCEPT !.acl = ""],
      [Config(FALSE, "nsd", "/srv/dper", "", ConfPeers) EXCEPT !.zonefiles = FALSE],
      Config(FALSE, "knot", "/etc/nsd", "knotc reload", ConfPeers) }

Replies ==
    ({200} \X {JsonXY, JsonYDot, JsonXX, JsonBad, JsonUpper,
                XmlZ, XmlYZ, XmlYY, XmlBad, XmlDotY, Html})
    \cup ({101, 300, 304, 404, 503} \X {Html})
    \cup {<<300, JsonXY>>, <<404, JsonXY>>, <<304, XmlZ>>}

Causes == {"refused", "dns", "connect_timeout", "read_timeout"}

OldPeers ==
    << Peer(<<"a">>, <<M1>>, <<Zx, Zy>>), Peer(<<"b", "/", "n1">>, <<M1, M2>>, <<Zz>>) >>

\* one run over a rich network
Env ==
    [causes |-> Causes, replies |-> Replies, cached |-> {JsonXY, XmlZ},
     published |-> {OldPeers}, fsfaults |-> TRUE, runs |-> 1]

\* a sequence of runs for one peer
RunConfigs ==
    { Config(TRUE, "nsd", "/srv/dper", "nsd-control reconfig", SubSeq(ConfPeers, 1, 1)),
      Config(FALSE, "knot", "/tmp", "", SubSeq(ConfPeers, 1, 1)) }

RunEnv ==
    [causes |-> {"refused", "read_timeout"},
     replies |-> {<<200, JsonXY>>, <<200, JsonYDot>>, <<200, Html>>, <<304, Html>>,
                  <<503, Html>>},
     cached |-> {JsonXY}, published |-> {}, fsfaults |-> TRUE, runs |-> MaxRuns]

Init == InitOf(Configs, {Env}) \/ InitOf(RunConfigs, {RunEnv})

Spec == Init /\ [][Next]_vars

\* ------------------------------------------------------------------ claims
\* the fetch of peer i has been resolved, or has failed, and the run has not moved on
CurrentFetch ==
    \/ pc \in {"pd_resolve", "pd_parse"}
    \/ pc = "exited" /\ raised.at \in {"pd_get", "pd_resolve", "pd_nocache", "pd_parse"}

\* the fetch of peer i failed: process_dper left by an exception before parsing
FetchFailed == pc = "exited" /\ raised.at \in {"pd_get", "pd_resolve", "pd_nocache"}

Owners(ps, z) == {p \in 1..Len(ps) : \E k \in 1..Len(ps[p].zones) : ps[p].zones[k] = z}

FirstOwner(ps, z) == ps[CHOOSE p \in Owners(ps, z) : \A q \in Owners(ps, z) : p <= q].id

CrossDup(ps) ==
    \E p, q \in 1..Len(ps) :
        /\ ps[p].id # ps[q].id
        /\ \E k \in 1..Len(ps[p].zones) : p \in Owners(ps, ps[p].zones[k])
                                          /\ q \in Owners(ps, ps[p].zones[k])

\* C1: when some zone is listed by two peers with different ids, check_peers
\* ends in the one ValueError, raised only once the scan has passed the last
\* peer, and every occurrence of a zone under a peer other than its first-seen
\* owner has been logged against that first-seen owner.
C1_DuplicateZonesFail ==
    "check" \in visited =>
        /\ \A r \in DOMAIN critical :
              critical[r].owner = FirstOwner(peers, critical[r].zone)
        /\ raised.at = "check" =>
              /\ ci > Len(peers)
              /\ raised.exc = "ValueError"
              /\ exit_status = "1"
        /\ (pc # "check" /\ CrossDup(peers)) =>
              /\ pc = "exited"
              /\ raised.at = "check"
              /\ \A p \in 1..Len(peers) : \A k \in 1..Len(peers[p].zones) :
                    FirstOwner(peers, peers[p].zones[k]) # peers[p].id =>
                        \E r \in DOMAIN critical :
                            critical[r] = [zone |-> peers[p].zones[k],
                                           owner |-> FirstOwner(peers, peers[p].zones[k]),
                                           peer |-> peers[p].id]

\* a zone claimed by three peers, logged twice against the first, next to a unique zone
C1_Witness ==
    /\ pc = "exited"
    /\ raised.at = "check"
    /\ \E r1, r2 \in DOMAIN critical :
          /\ critical[r1].zone = critical[r2].zone
          /\ critical[r1].peer # critical[r2].peer
          /\ critical[r1].owner = critical[r2].owner
    /\ \E z \in DOMAIN all_zones : \A r \in DOMAIN critical : critical[r].zone # z

\* the step about to be taken is one in which a fetch, a parse, a validation
\* or the duplicate check fails for good
Failing ==
    \/ /\ pc = "pd_get"
       /\ net'.kind = "error"
       /\ ~IsConnectionError(ExceptionOf(net'.cause))
    \/ /\ pc = "pd_resolve"
       /\ \/ response = None /\ ~cache[i].exists
          \/ response # None /\ response.status_code >= 400
    \/ /\ pc = "pd_nocache"
       /\ \/ net'.kind = "error"
          \/ net'.kind = "Response" /\ net'.status_code >= 400
    \/ /\ pc = "pd_parse"
       /\ \/ payload.fmt # cfg.peers[i].format
          \/ \E k \in 1..Len(payload.elems) :
                \/ \E m \in 1..Len(payload.elems[k].masters) :
                      payload.elems[k].masters[m].ip \notin ValidIPs
                \/ \E z \in 1..Len(payload.elems[k].zones) :
                      payload.elems[k].zones[z][1] \notin WordChr
    \/ /\ pc = "check"
       /\ ci > Len(peers)
       /\ CrossDup(peers) \/ zone_errors > 0

\* C2: a step in which a fetch, parse or validation fails for good, or the
\* duplicate check fails, ends the run with a non-zero status; save_config
\* has not been entered, no temporary file was made, the live file is as the
\* run found it and the reconfigure command has not been executed.
C2_FatalBeforePublish ==
    [][Failing =>
          /\ pc' = "exited"
          /\ exit_status' \in {"1", "255"}
          /\ "sc_render" \notin visited'
          /\ tmpfiles' = tmpfiles
          /\ live' = live_pre
          /\ live_pre' = live_pre
          /\ changed' = "none"
          /\ reconfigured' = <<>>]_vars

\* a run that died in the duplicate check next to a live file it left alone
C2_Witness ==
    /\ pc = "exited"
    /\ raised.at = "check"
    /\ exit_status = "1"
    /\ live.exists
    /\ live = live_pre

C4_TmpBesideLive ==
    \A n \in TmpNames : tmpfiles[n].exists => tmpfiles[n].dir = cfg.output_dir

\* C5: a save_config call that returns, follows a call that returned with the
\* same rendered text and has force_output false reports False, leaves the
\* live file (content and mode) as it was and has removed its temporary file.
C5_PublishIdempotent ==
    (changed # "none" /\ prev_call.returned /\ prev_call.text = config_output
        /\ ~args.force) =>
        /\ changed = "False"
        /\ live = live_pre
        /\ ~tmpfiles[output_path].exists

\* the second of two calls with the same non-empty text has returned False
C5_Witness ==
    /\ run = 2
    /\ prev_call.returned
    /\ prev_call.text = config_output
    /\ config_output # NoText
    /\ ~args.force
    /\ changed = "False"
    /\ live.exists

\* C6: save_config returns True exactly when diff did not return 0 or
\* force_output is set; after True the live file holds the rendered text and
\* is read-only for owner, group and other.
C6_ChangedMeansPublished ==
    /\ changed = "True" =>
          /\ live = OutFile(config_output, S_IRUSR_IRGRP_IROTH, cfg.output_dir)
          /\ ~tmpfiles[output_path].exists
    /\ changed # "none" => (changed = "True" <=> (returncode # 0 \/ args.force))

\* a forced publish of a text equal to the live one
C6_Witness ==
    /\ changed = "True"
    /\ returncode = 0
    /\ args.force
    /\ live_pre.exists
    /\ live.content = live_pre.content

\* C7 (as claimed): caching on, force_cache off, the request failed at the
\* transport level: with a cache file the fetch returns its content and
\* leaves it alone, without one the fetch fails.
C7_TransportFallback ==
    (CurrentFetch /\ cfg.cache_dir /\ ~args.offline /\ net.kind = "error") =>
        /\ cache[i] = cache_pre[i]
        /\ cache[i].exists => /\ ~FetchFailed
                              /\ pc = "pd_parse" => payload = cache[i].content
        /\ ~cache[i].exists => pc \in {"pd_resolve", "exited"}

\* C8: caching on, a cache file exists and the server answers 304: the fetch
\* returns the content of the cache file and the file is as it was (content
\* and mtime); every request of a caching run carries If-Modified-Since, made
\* from the mtime of the peer's cache file, exactly when that file exists.
C8_ConditionalFetch ==
    cfg.cache_dir =>
        /\ (CurrentFetch /\ net.kind = "Response" /\ net.status_code = 304
               /\ cache_pre[i].exists) =>
              /\ cache[i] = cache_pre[i]
              /\ ~FetchFailed
              /\ pc = "pd_parse" => payload = cache_pre[i].content
        /\ \A k \in DOMAIN sent :
              sent[k].headers =
                 IF cache_pre[sent[k].peer].exists
                 THEN {[name |-> "If-Modified-Since",
                        value |-> strftime(Datetime(cache_pre[sent[k].peer].mtime))]}
                 ELSE {}

\* a 304 answered to a conditional request, served from the cache file
C8_Witness ==
    /\ cfg.cache_dir
    /\ pc = "pd_parse"
    /\ net.kind = "Response"
    /\ net.status_code = 304
    /\ cache_pre[i].exists
    /\ payload = cache[i].content
    /\ sent[Len(sent)].headers # {}

\* C9: caching on and force_cache set: no request is issued, no cache file
\* is written, the payload is the content of the peer's cache file, and no
\* peer without a cache file gets past its fetch.
C9_ForceCacheOffline ==
    (cfg.cache_dir /\ args.offline) =>
        /\ sent = <<>>
        /\ net = NoNet
        /\ cache = cache_pre
        /\ pc = "pd_parse" => (cache[i].exists /\ payload = cache[i].content)
        /\ \A k \in 1..(i - 1) : cache[k].exists
        /\ (pc = "exited" /\ i <= Len(cfg.peers) /\ ~cache[i].exists) =>
              raised = [exc |-> "FileNotFoundError", at |-> "pd_resolve"]

\* an offline run reading the second peer's payload from its cache file
C9_Witness ==
    /\ cfg.cache_dir
    /\ args.offline
    /\ pc = "pd_parse"
    /\ i = 2
    /\ payload = cache[i].content

Is2xx(s) == 200 <= s /\ s < 300

\* C10 (as claimed): a response whose status is not 2xx, other than 304 with
\* caching on, makes the fetch fail: its body is no payload and the cache
\* file is as it was.
C10_Non2xxFails ==
    (CurrentFetch /\ net.kind = "Response" /\ ~Is2xx(net.status_code)
        /\ ~(net.status_code = 304 /\ cfg.cache_dir)) =>
        /\ pc # "pd_parse"
        /\ pc = "exited" => FetchFailed
        /\ cache[i] = cache_pre[i]

\* C11: the reconfigure command is executed at most once in a run, only when
\* save_config returned True (so after the rename put the rendered text at the
\* live path) and a command is configured; a run that ends normally has
\* executed it exactly in that case, and whatever the command's exit status
\* the run ends with status 0.
C11_ReconfigureOnChange ==
    /\ Len(reconfigured) <= 1
    /\ reconfigured # <<>> =>
          /\ changed = "True"
          /\ cfg.reconfigure_command # ""
          /\ "sc_rename" \in visited
          /\ live.exists /\ live.content = config_output
          /\ pc = "exited"
          /\ exit_status = "0"
          /\ raised = NoRaise
    /\ (pc = "exited" /\ "reconfigure" \in visited) =>
          /\ exit_status = "0"
          /\ reconfigured # <<>> <=> (changed = "True" /\ cfg.reconfigure_command # "")

\* a run whose reconfigure command failed and which still ended with status 0
C11_Witness ==
    /\ pc = "exited"
    /\ reconfigured = <<1>>
    /\ exit_status = "0"
    /\ changed = "True"

\* C12 (as claimed): when no zone is listed by two peers with different ids,
\* check_peers logs no conflict and raises nothing, repeats inside one peer's
\* own zone list included.
C12_InPeerRepeatPasses ==
    ("check" \in visited /\ pc # "check" /\ ~CrossDup(peers)) =>
        /\ critical = <<>>
        /\ raised.at # "check"

Rendered == "sc_mkstemp" \in visited

IsAclLine(l) == Len(l) > 0 /\ l[1] = "    acl: "
IsMasterLine(l) == Len(l) > 0 /\ l[1] = "    master: "

\* the remote ids of a peer: '{peer-id}/1' ... '{peer-id}/n'
RemoteIds(peer) == [n \in 1..Len(peer.masters) |-> peer.id \o <<"/", NumStr[n]>>]

RECURSIVE CommaList(_)
CommaList(ids) ==
    IF ids = <<>> THEN <<>>
    ELSE Head(ids) \o (IF Len(ids) > 1 THEN <<",">> ELSE <<>>) \o CommaList(Tail(ids))

WantedAclLine(peer) ==
    <<"    acl: ", "[">>
    \o CommaList((IF cfg.acl # "" THEN << <<cfg.acl>> >> ELSE <<>>) \o RemoteIds(peer))
    \o <<"]">>

WantedMasterLine(peer) == <<"    master: ", "[">> \o CommaList(RemoteIds(peer)) \o <<"]">>

RECURSIVE PerZone(_, _, _)
\* for every peer from the k-th on, line[k] once per zone of the peer
PerZone(ps, k, line) ==
    IF k > Len(ps) THEN <<>>
    ELSE [z \in 1..Len(ps[k].zones) |-> line[k]] \o PerZone(ps, k + 1, line)

\* C13 (as claimed): in the knot dialect every zone entry names, as acl, the
\* configured ACL id (if any) followed by each remote id of its peer once, and
\* as master the remote ids of its peer in master order.
C13_KnotAclList ==
    (cfg.output_format = "knot" /\ Rendered) =>
        /\ SelectSeq(config_output, IsAclLine) = PerZone(peers, 1, [p \in 1..Len(peers) |-> WantedAclLine(peers[p])])
        /\ SelectSeq(config_output, IsMasterLine) = PerZone(peers, 1, [p \in 1..Len(peers) |-> WantedMasterLine(peers[p])])

RECURSIVE WantedMasterLines(_)
WantedMasterLines(ms) ==
    IF ms = <<>> THEN <<>>
    ELSE << <<"  allow-notify: ", Head(ms).ip, " ", Head(ms).tsig>>,
            <<"  allow-notify: ", Head(ms).ip, " ", "NOKEY">>,
            <<"  request-xfr: ", Head(ms).ip, " ", Head(ms).tsig>> >>
         \o WantedMasterLines(Tail(ms))

RECURSIVE WantedZonefile(_)
WantedZonefile(z) ==
    IF z = <<>> THEN <<>>
    ELSE <<CASE Head(z) = "/" -> "-" [] Head(z) = "Y" -> "y" [] OTHER -> Head(z)>>
         \o WantedZonefile(Tail(z))

WantedStanza(peer, z) ==
    << <<"# ">> \o peer.id, <<"zone:">>, <<"  name: ">> \o z >>
    \o (IF cfg.zonefiles THEN << <<"  zonefile: ">> \o WantedZonefile(z) >> ELSE <<>>)
    \o WantedMasterLines(peer.masters)
    \o << <<>> >>

RECURSIVE WantedStanzas(_, _, _)
\* the stanzas from zone k of peer p on
WantedStanzas(ps, p, k) ==
    IF p > Len(ps) THEN <<>>
    ELSE IF k > Len(ps[p].zones) THEN WantedStanzas(ps, p + 1, 1)
    ELSE WantedStanza(ps[p], ps[p].zones[k]) \o WantedStanzas(ps, p, k + 1)

ZoneCount(ps) == Len(PerZone(ps, 1, [p \in 1..Len(ps) |-> p]))

\* C14: in the nsd dialect the text is, for every peer and every zone of it
\* in order, one stanza: the comment with the peer id, "zone:", the name, the
\* zonefile line (lower-cased, "/" as "-") only with zonefiles on, per master
\* allow-notify with the key, allow-notify NOKEY and request-xfr, and a blank
\* line; a peer without zones adds nothing.
C14_NsdStanzas ==
    (cfg.output_format = "nsd" /\ Rendered) =>
        /\ config_output = WantedStanzas(peers, 1, 1)
        /\ Len(SelectSeq(config_output, LAMBDA l : l = <<>>)) = ZoneCount(peers)
        /\ Len(SelectSeq(config_output, LAMBDA l : l = <<"zone:">>)) = ZoneCount(peers)

\* a rendered nsd text for peers of which one has no zones and one has a
\* zone with an upper-case letter
C14_Witness ==
    /\ cfg.output_format = "nsd"
    /\ Rendered
    /\ config_output # NoText
    /\ \E p \in 1..Len(peers) : peers[p].zones = <<>>
    /\ \E p \in 1..Len(peers) : peers[p].zones = <<ZY>> /\ peers[p].masters # <<>>

\* the descriptor inside a payload element
Descriptor(e) == [masters |-> e.masters, zones |-> e.zones]

\* a payload in the format configured for peer i of which some element
\* violates the schema
InvalidElement(body) ==
    /\ i <= Len(cfg.peers)
    /\ body.fmt = cfg.peers[i].format
    /\ \E k \in 1..Len(body.elems) : ~DYNAMIC_CONFIG_SCHEMA(Descriptor(body.elems[k]))

\* C15: parsing a payload with a schema violation in any element ends the
\* run with ValidationError and adds nothing to the run's peer list, not even
\* the valid elements before the invalid one; every Peer in the peer list
\* comes from a descriptor that satisfies the schema.
C15_ValidateBeforeConstruct ==
    /\ [][(pc = "pd_parse" /\ InvalidElement(payload)) =>
             /\ peers' = peers
             /\ pc' = "exited"
             /\ raised' = [exc |-> "ValidationError", at |-> "pd_parse"]
             /\ exit_status' = "1"]_vars
    /\ [](\A p \in 1..Len(peers) : DYNAMIC_CONFIG_SCHEMA(Descriptor(peers[p])))

\* the second XML peer element was invalid, the first valid: the run ended
\* with the peer list as it was before the document
C15_Witness ==
    /\ pc = "exited"
    /\ raised = [exc |-> "ValidationError", at |-> "pd_parse"]
    /\ payload = XmlBad
    /\ DYNAMIC_CONFIG_SCHEMA(Descriptor(XmlBad.elems[1]))
    /\ i = 2
    /\ Len(peers) = 1

\* C16 (as claimed): with caching on, the cache file of the peer being
\* fetched holds the body of a 2xx response of this run, with a newer mtime,
\* and is otherwise (304, transport failure, failing status, force_cache)
\* as the run found it; the files of the peers not yet fetched are as the
\* run found them.
C16_CacheIsLast2xx ==
    cfg.cache_dir =>
        /\ \A k \in (i + 1)..Len(cfg.peers) : cache[k] = cache_pre[k]
        /\ (pc = "pd_parse" \/ (pc = "exited" /\ raised.at = "pd_parse")) =>
              IF net.kind = "Response" /\ Is2xx(net.status_code)
              THEN /\ cache[i].exists
                   /\ cache[i].content = net.text
                   /\ cache[i].mtime > cache_pre[i].mtime
              ELSE cache[i] = cache_pre[i]
        /\ FetchFailed => cache[i] = cache_pre[i]

\* In a caching run the cache file of a fetched peer holds the raw payload
\* the peer was parsed from.  The occurrences of zone names in those payloads:
\* peer k, element e, position j.
Occurrences ==
    UNION { UNION { {[k |-> k, e |-> e, j |-> j] :
                        j \in 1..Len(cache[k].content.elems[e].zones)} :
                    e \in 1..Len(cache[k].content.elems) } :
            k \in 1..Len(cfg.peers) }

RawZone(o) == cache[o.k].content.elems[o.e].zones[o.j]

RawOwner(o) ==
    IF cfg.peers[o.k].format = "json"
    THEN cfg.peers[o.k].id
    ELSE cfg.peers[o.k].id \o <<"/", cache[o.k].content.elems[o.e].name>>

\* the name without its trailing root-label dot, letters as they are
Normalized(z) ==
    IF z # <<>> /\ z[Len(z)] = "." THEN [n \in 1..(Len(z) - 1) |-> z[n]] ELSE z

\* the zone names of a peer list, each with the id of its peer
ZonesOf(ps) ==
    UNION { {[id |-> ps[p].id, zone |-> ps[p].zones[n]] : n \in 1..Len(ps[p].zones)} :
            p \in 1..Len(ps) }

\* C17: after the check of a caching run, the peer list holds the supplied
\* names without their trailing dot, in the supplied case; two different
\* peers supplying names that are equal once the trailing dot is dropped
\* make the check fail; when no two supplied names are equal after dropping
\* the dot (names differing in case only included) the check passes; every
\* reported conflict is between two supplied names equal after dropping the dot.
C17_NormalizedConflicts ==
    (cfg.cache_dir /\ "check" \in visited /\ pc # "check") =>
        /\ ZonesOf(peers) =
              {[id |-> RawOwner(o), zone |-> Normalized(RawZone(o))] : o \in Occurrences}
        /\ (\E o1, o2 \in Occurrences :
               /\ RawOwner(o1) # RawOwner(o2)
               /\ Normalized(RawZone(o1)) = Normalized(RawZone(o2)))
           => raised = [exc |-> "ValueError", at |-> "check"]
        /\ (\A o1, o2 \in Occurrences :
               Normalized(RawZone(o1)) = Normalized(RawZone(o2)) => o1 = o2)
           => raised.at # "check"
        /\ \A n \in DOMAIN critical :
              \E o1, o2 \in Occurrences :
                 /\ o1 # o2
                 /\ Normalized(RawZone(o1)) = critical[n].zone
                 /\ Normalized(RawZone(o2)) = critical[n].zone
                 /\ RawOwner(o1) = critical[n].owner
                 /\ RawOwner(o2) = critical[n].peer

\* peer a supplied "y.", peer b/n1 "y" and b/n2 "Y": one conflict, on y,
\* between a and b/n1, and none for Y
C17_Witness ==
    /\ cfg.cache_dir
    /\ pc = "exited"
    /\ raised = [exc |-> "ValueError", at |-> "check"]
    /\ cache[1].content = JsonYDot
    /\ cache[2].content = XmlYZ
    /\ critical = <<[zone |-> Zy, owner |-> <<"a">>, peer |-> <<"b", "/", "n1">>]>>

\* what the payload `body` parses to for the k-th configured peer
ParsedAs(k, body) ==
    IF cfg.peers[k].format = "json"
    THEN parse_dynamic_config_json(cfg.peers[k].id, body)
    ELSE parse_dynamic_config_xml(cfg.peers[k].id, body)

RECURSIVE FromCaches(_)
\* the peers parsed from the cache files of the configured peers k, k+1, ...
FromCaches(k) ==
    IF k > Len(cfg.peers) THEN <<>>
    ELSE ParsedAs(k, cache[k].content).val \o FromCaches(k + 1)

RECURSIVE ZoneList(_, _)
\* the zones of the peers p, p+1, ... in order
ZoneList(ps, p) == IF p > Len(ps) THEN <<>> ELSE ps[p].zones \o ZoneList(ps, p + 1)

RECURSIVE XfrList(_, _, _)
\* the master ips, once per zone, of the peers from zone k of peer p on
XfrList(ps, p, k) ==
    IF p > Len(ps) THEN <<>>
    ELSE IF k > Len(ps[p].zones) THEN XfrList(ps, p + 1, 1)
    ELSE [m \in 1..Len(ps[p].masters) |-> ps[p].masters[m].ip] \o XfrList(ps, p, k + 1)

RECURSIVE AddressList(_, _)
\* the master ips of the peers p, p+1, ... in order
AddressList(ps, p) ==
    IF p > Len(ps) THEN <<>>
    ELSE [m \in 1..Len(ps[p].masters) |-> ps[p].masters[m].ip] \o AddressList(ps, p + 1)

\* the rest of the lines of the text that start with the fragment `first`
LinesOf(text, first) ==
    LET sel == SelectSeq(text, LAMBDA l : Len(l) > 0 /\ l[1] = first)
    IN  [n \in 1..Len(sel) |-> Tail(sel[n])]

\* the peer index moves only past a parsed payload, or back to 1 for a new run
OneByOne ==
    /\ (i' # i) =>
          \/ /\ pc = "pd_parse"
             /\ i' = i + 1
             /\ ParsedAs(i, payload).kind = "return"
             /\ peers' = peers \o ParsedAs(i, payload).val
          \/ /\ pc = "exited"
             /\ i' = 1
             /\ peers' = <<>>
    /\ (peers' # peers) => (i' # i)

\* C18: the index of the peer being processed only ever moves on by one,
\* when the payload of that peer has been parsed and its peers have been
\* added at the end of the list; a run that reaches rendering has processed
\* every configured peer, has sent its requests in configuration order, one
\* per peer, and (caching on) its peer list is what the cache files parse to,
\* in configuration order; the rendered zones and masters follow the order of
\* the peer list; a transport failure that ends a fetch ends the run with a
\* non-zero status before the check, the live file untouched.
C18_PeersInOrder ==
    /\ [][OneByOne]_vars
    /\ [](Rendered =>
            /\ i = Len(cfg.peers) + 1
            /\ (~args.offline) => [k \in 1..Len(sent) |-> sent[k].peer]
                                   = [k \in 1..Len(cfg.peers) |-> k]
            /\ cfg.cache_dir => peers = FromCaches(1)
            /\ cfg.output_format = "nsd" =>
                  /\ LinesOf(config_output, "  name: ") = ZoneList(peers, 1)
                  /\ [n \in 1..Len(LinesOf(config_output, "  request-xfr: ")) |->
                         LinesOf(config_output, "  request-xfr: ")[n][1]]
                        = XfrList(peers, 1, 1)
            /\ cfg.output_format = "knot" =>
                  /\ LinesOf(config_output, "  - domain: ") = ZoneList(peers, 1)
                  /\ LinesOf(config_output, "    address: ")
                        = [n \in 1..Len(AddressList(peers, 1)) |->
                              <<AddressList(peers, 1)[n]>>])
    /\ []((FetchFailed /\ net.kind = "error") =>
            /\ exit_status \in {"1", "255"}
            /\ i <= Len(cfg.peers)
            /\ "check" \notin visited
            /\ live = live_pre)

\* a published run over both configured peers, the second supplying two
\* peer elements
C18_Witness ==
    /\ pc = "exited"
    /\ exit_status = "0"
    /\ changed = "True"
    /\ Len(cfg.peers) = 2
    /\ Len(peers) = 3
    /\ peers[1].id = <<"a">>
    /\ peers[3].id = <<"b", "/", "n2">>
    /\ live.content = config_output

\* C19 (as claimed): a run started with --offline issues no HTTP request,
\* with or without a cache directory.
C19_OfflineNoRequest == args.offline => (sent = <<>> /\ net = NoNet)

\* a cache file written by this run
WrittenThisRun(k) == cache[k].exists /\ cache[k] # cache_pre[k]

\* C20 (as claimed): a cache file this run has written holds a payload that
\* parses and validates in the format of its peer.
C20_CachedParses ==
    \A k \in 1..Len(cfg.peers) :
        (WrittenThisRun(k) /\ (k < i \/ pc = "exited")) =>
            ParsedAs(k, cache[k].content).kind = "return"

====
